---- MODULE Spec2Model ----
(***************************************************************************)
(* EMA + RSI multi-timeframe signal engine: the entry rule evaluator       *)
(* (check_buy_conditions / check_sell_conditions), the trend classifier    *)
(* (get_trend_direction / analyze_trend) and the per-instrument cooldown   *)
(* state machine of TradingStrategy.analyze.                               *)
(*                                                                         *)
(* Numbers.  Prices are integers in units of 0.00001 (the resolution of    *)
(* the ":.5f" rendering used by the rationale text), so one "point" of     *)
(* STOP_LOSS_POINTS * 0.0001 is POINT = 10 units.  RSI and ATR values are  *)
(* integers; the float NaN that calculate_rsi produces for 0/0 is the      *)
(* value NaN, and every ordered comparison with it is false, as in IEEE    *)
(* arithmetic.  The clock counts whole minutes.                            *)
(***************************************************************************)
EXTENDS Integers, Sequences, FiniteSets, TLC

VARIABLES
    config,           \* the values of the config module read by strategy.py
    now,              \* the wall clock read by datetime.now(), in minutes
    signal_cooldown,  \* TradingStrategy.signal_cooldown: symbol -> time of last entry
    call,             \* arguments of the latest analyze call
    result,           \* what the latest analyze call returned
    trace,            \* which evaluators the latest analyze call consulted (history)
    last_entry,       \* time of the latest entry-kind signal returned, per symbol (history)
    eval_in,          \* arguments of a direct check_buy/check_sell evaluation
    eval_out,         \* its two results
    threads,          \* callers inside analyze: place in the code and local variables
    main_current_time, \* main: current_time, read at the top of the polling cycle
    pending,          \* main: the symbols the for loop of this cycle has yet to visit
    outcome,          \* main: how the latest pass of the for loop ended (history)
    last_signals,     \* main: (symbol, signal type) -> time the key was last set
    sent,             \* alerts handed to the Telegram notifier, in order
    trades,           \* PerformanceTracker.trades
    current_balance,  \* PerformanceTracker.current_balance
    daily_stats,      \* PerformanceTracker.daily_stats: date -> statistics of the day
    tracker_call      \* the latest call on the tracker and what it returned (history)

thread_vars == <<threads>>
main_vars == <<main_current_time, pending, last_signals, sent, outcome>>
tracker_vars == <<trades, current_balance, daily_stats, tracker_call>>

vars == <<config, now, signal_cooldown, call, result, trace, last_entry, eval_in, eval_out,
          thread_vars, main_vars, tracker_vars>>

-----------------------------------------------------------------------------
(* Bounds of the model *)

MaxTime == 2

Symbols == {"EURUSD", "GBPUSD"}

-----------------------------------------------------------------------------
(* Floats *)

NaN == -1

FLt(a, b) == a # NaN /\ b # NaN /\ a < b
FLe(a, b) == a # NaN /\ b # NaN /\ a <= b
FGt(a, b) == FLt(b, a)
FGe(a, b) == FLe(b, a)

Abs(x) == IF x < 0 THEN -x ELSE x

POINT == 10

-----------------------------------------------------------------------------
(* Configuration surface (module config) *)

ZoneSettings ==
    { [buy |-> <<40, 50>>, sell |-> <<50, 60>>],
      [buy |-> <<40, 55>>, sell |-> <<45, 60>>] }

Configs ==
    { [ EMA_PROXIMITY_POINTS    |-> 10,
        RSI_BUY_ZONE            |-> z.buy,
        RSI_SELL_ZONE           |-> z.sell,
        RSI_LEVEL               |-> 50,
        ATR_MIN_VALUE           |-> 5,
        ENABLE_READY_ALERT      |-> r,
        STOP_LOSS_POINTS        |-> 2,
        TAKE_PROFIT_POINTS      |-> 3,
        SIGNAL_COOLDOWN_CANDLES |-> 2 ] : z \in ZoneSettings, r \in BOOLEAN }

-----------------------------------------------------------------------------
(* indicators.py: predicates on indicator values *)

is_price_near_ema(price, ema, proximity_points) ==
    LET distance == Abs(price - ema)
    IN  FLe(distance, proximity_points)

\* Mutant: an average or a close on the slow average still counts as a trend.
get_trend_direction_or_equal(df) ==
    IF Len(df) < 2 THEN "neutral"
    ELSE LET last_row == df[Len(df)]
         IN  IF FGe(last_row.ema_fast, last_row.ema_slow)
                /\ FGe(last_row.close, last_row.ema_slow) THEN "bullish"
             ELSE IF FLe(last_row.ema_fast, last_row.ema_slow)
                     /\ FLe(last_row.close, last_row.ema_slow) THEN "bearish"
             ELSE "neutral"

\* Mutant: the close is not compared with the slow average.
get_trend_direction_no_close(df) ==
    IF Len(df) < 2 THEN "neutral"
    ELSE LET last_row == df[Len(df)]
         IN  IF FGt(last_row.ema_fast, last_row.ema_slow) THEN "bullish"
             ELSE IF FLt(last_row.ema_fast, last_row.ema_slow) THEN "bearish"
             ELSE "neutral"

get_trend_direction(df) ==
    IF Len(df) < 2 THEN "neutral"
    ELSE LET last_row == df[Len(df)]
         IN  IF FGt(last_row.ema_fast, last_row.ema_slow)
                /\ FGt(last_row.close, last_row.ema_slow) THEN "bullish"
             ELSE IF FLt(last_row.ema_fast, last_row.ema_slow)
                     /\ FLt(last_row.close, last_row.ema_slow) THEN "bearish"
             ELSE "neutral"

\* Mutant: the downward cross must start strictly above the level.
check_rsi_cross_strict_start(current_rsi, previous_rsi, level, direction) ==
    IF direction = "above" THEN FLe(previous_rsi, level) /\ FLt(level, current_rsi)
    ELSE IF direction = "below" THEN FGt(previous_rsi, level) /\ FGt(level, current_rsi)
    ELSE FALSE

\* Mutant: the current value on the far side of the level is enough.
check_rsi_cross_current_only(current_rsi, previous_rsi, level, direction) ==
    IF direction = "above" THEN FLt(level, current_rsi)
    ELSE IF direction = "below" THEN FGt(level, current_rsi)
    ELSE FALSE

\* Mutant: reaching the level counts as crossing it.
check_rsi_cross_reaching(current_rsi, previous_rsi, level, direction) ==
    IF direction = "above" THEN FLe(previous_rsi, level) /\ FLe(level, current_rsi)
    ELSE IF direction = "below" THEN FGe(previous_rsi, level) /\ FGe(level, current_rsi)
    ELSE FALSE

check_rsi_cross(current_rsi, previous_rsi, level, direction) ==
    IF direction = "above" THEN FLe(previous_rsi, level) /\ FLt(level, current_rsi)
    ELSE IF direction = "below" THEN FGe(previous_rsi, level) /\ FGt(level, current_rsi)
    ELSE FALSE

\* Mutant: a close on the fast average counts as above it.
check_candle_close_or_equal(current_close, ema, direction) ==
    IF direction = "above" THEN FGe(current_close, ema)
    ELSE IF direction = "below" THEN FLt(current_close, ema)
    ELSE FALSE

check_candle_close(current_close, ema, direction) ==
    IF direction = "above" THEN FGt(current_close, ema)
    ELSE IF direction = "below" THEN FLt(current_close, ema)
    ELSE FALSE

-----------------------------------------------------------------------------
(* strategy.py: TradingStrategy *)

\* Python's None, as a signal type, as a rationale and as a returned signal.
NoType == "None"
NoReason == [text |-> "None"]
None == [type |-> "None"]

SignalTypes == {"ready_buy", "entry_buy", "ready_sell", "entry_sell"}

\* 'entry' in signal_type
IsEntry(signal_type) == signal_type \in {"entry_buy", "entry_sell"}

\* Mutant: one snapshot is taken for enough history.
analyze_trend_one_row(df_5m, symbol) ==
    IF Len(df_5m) < 1 THEN [direction |-> "neutral", valid |-> FALSE]
    ELSE LET last_row == df_5m[Len(df_5m)]
             trend == IF FGt(last_row.ema_fast, last_row.ema_slow)
                         /\ FGt(last_row.close, last_row.ema_slow) THEN "bullish"
                      ELSE IF FLt(last_row.ema_fast, last_row.ema_slow)
                              /\ FLt(last_row.close, last_row.ema_slow) THEN "bearish"
                      ELSE "neutral"
         IN  [ direction |-> trend,
               valid     |-> trend # "neutral",
               ema_fast  |-> last_row.ema_fast,
               ema_slow  |-> last_row.ema_slow,
               close     |-> last_row.close ]

\* Mutant: every reading of a long enough frame is marked valid.
analyze_trend_always_valid(df_5m, symbol) ==
    IF Len(df_5m) < 2 THEN [direction |-> "neutral", valid |-> FALSE]
    ELSE LET trend == get_trend_direction(df_5m)
             last_row == df_5m[Len(df_5m)]
         IN  [ direction |-> trend,
               valid     |-> TRUE,
               ema_fast  |-> last_row.ema_fast,
               ema_slow  |-> last_row.ema_slow,
               close     |-> last_row.close ]

analyze_trend(df_5m, symbol) ==
    IF Len(df_5m) < 2 THEN [direction |-> "neutral", valid |-> FALSE]
    ELSE LET trend == get_trend_direction(df_5m)
             last_row == df_5m[Len(df_5m)]
         IN  [ direction |-> trend,
               valid     |-> trend # "neutral",
               ema_fast  |-> last_row.ema_fast,
               ema_slow  |-> last_row.ema_slow,
               close     |-> last_row.close ]

\* The rationale texts, by the numbers they render.
ReadyReason(kind, current, previous) ==
    [ text         |-> kind,
      close        |-> current.close,
      ema_fast     |-> current.ema_fast,
      previous_rsi |-> previous.rsi,
      rsi          |-> current.rsi ]

EntryReason(kind, current, stop_loss, take_profit) ==
    [ text        |-> kind,
      close       |-> current.close,
      ema_fast    |-> current.ema_fast,
      rsi         |-> current.rsi,
      stop_loss   |-> stop_loss,
      take_profit |-> take_profit ]

\* Mutant: the floor is excluded downwards only by one unit.
atr_valid_off_by_one(current, cfg) == FGe(current.atr, cfg.ATR_MIN_VALUE - 1)

\* current['atr'] >= config.ATR_MIN_VALUE
atr_valid(current, cfg) == FGe(current.atr, cfg.ATR_MIN_VALUE)

\* Mutant: the ready alert is raised whatever the flag says.
check_buy_conditions_flag_ignored(df_1m, trend_info, cfg) ==
    IF Len(df_1m) < 2 THEN <<NoType, NoReason>>
    ELSE IF trend_info.direction # "bullish" THEN <<NoType, NoReason>>
    ELSE
      LET current  == df_1m[Len(df_1m)]
          previous == df_1m[Len(df_1m) - 1]
          price_near_ema ==
              is_price_near_ema(current.close, current.ema_fast, cfg.EMA_PROXIMITY_POINTS)
          rsi_in_zone ==
              FLe(cfg.RSI_BUY_ZONE[1], current.rsi) /\ FLe(current.rsi, cfg.RSI_BUY_ZONE[2])
          rsi_crossed ==
              check_rsi_cross(current.rsi, previous.rsi, cfg.RSI_LEVEL, "above")
          candle_closed_above ==
              check_candle_close(current.close, current.ema_fast, "above")
      IN  IF ~atr_valid(current, cfg) THEN <<NoType, NoReason>>
          ELSE IF price_near_ema /\ rsi_in_zone /\ rsi_crossed
            THEN <<"ready_buy", ReadyReason("ready_buy", current, previous)>>
          ELSE IF price_near_ema /\ rsi_crossed /\ candle_closed_above
            THEN <<"entry_buy",
                   EntryReason("entry_buy", current,
                               current.close - cfg.STOP_LOSS_POINTS * POINT,
                               current.close + cfg.TAKE_PROFIT_POINTS * POINT)>>
          ELSE <<NoType, NoReason>>

check_buy_conditions(df_1m, trend_info, cfg) ==
    IF Len(df_1m) < 2 THEN <<NoType, NoReason>>
    ELSE IF trend_info.direction # "bullish" THEN <<NoType, NoReason>>
    ELSE
      LET current  == df_1m[Len(df_1m)]
          previous == df_1m[Len(df_1m) - 1]
          price_near_ema ==
              is_price_near_ema(current.close, current.ema_fast, cfg.EMA_PROXIMITY_POINTS)
          rsi_in_zone ==
              FLe(cfg.RSI_BUY_ZONE[1], current.rsi) /\ FLe(current.rsi, cfg.RSI_BUY_ZONE[2])
          rsi_crossed ==
              check_rsi_cross(current.rsi, previous.rsi, cfg.RSI_LEVEL, "above")
          candle_closed_above ==
              check_candle_close(current.close, current.ema_fast, "above")
      IN  IF ~atr_valid(current, cfg) THEN <<NoType, NoReason>>
          ELSE IF price_near_ema /\ rsi_in_zone /\ rsi_crossed /\ cfg.ENABLE_READY_ALERT
            THEN <<"ready_buy", ReadyReason("ready_buy", current, previous)>>
          ELSE IF price_near_ema /\ rsi_crossed /\ candle_closed_above
            THEN <<"entry_buy",
                   EntryReason("entry_buy", current,
                               current.close - cfg.STOP_LOSS_POINTS * POINT,
                               current.close + cfg.TAKE_PROFIT_POINTS * POINT)>>
          ELSE <<NoType, NoReason>>

\* Mutant: the levels of the buy rule, copied unchanged.
check_sell_conditions_buy_levels(df_1m, trend_info, cfg) ==
    IF Len(df_1m) < 2 THEN <<NoType, NoReason>>
    ELSE IF trend_info.direction # "bearish" THEN <<NoType, NoReason>>
    ELSE
      LET current  == df_1m[Len(df_1m)]
          previous == df_1m[Len(df_1m) - 1]
          price_near_ema ==
              is_price_near_ema(current.close, current.ema_fast, cfg.EMA_PROXIMITY_POINTS)
          rsi_in_zone ==
              FLe(cfg.RSI_SELL_ZONE[1], current.rsi) /\ FLe(current.rsi, cfg.RSI_SELL_ZONE[2])
          rsi_crossed ==
              check_rsi_cross(current.rsi, previous.rsi, cfg.RSI_LEVEL, "below")
          candle_closed_below ==
              check_candle_close(current.close, current.ema_fast, "below")
      IN  IF ~atr_valid(current, cfg) THEN <<NoType, NoReason>>
          ELSE IF price_near_ema /\ rsi_in_zone /\ rsi_crossed /\ cfg.ENABLE_READY_ALERT
            THEN <<"ready_sell", ReadyReason("ready_sell", current, previous)>>
          ELSE IF price_near_ema /\ rsi_crossed /\ candle_closed_below
            THEN <<"entry_sell",
                   EntryReason("entry_sell", current,
                               current.close - cfg.STOP_LOSS_POINTS * POINT,
                               current.close + cfg.TAKE_PROFIT_POINTS * POINT)>>
          ELSE <<NoType, NoReason>>

check_sell_conditions(df_1m, trend_info, cfg) ==
    IF Len(df_1m) < 2 THEN <<NoType, NoReason>>
    ELSE IF trend_info.direction # "bearish" THEN <<NoType, NoReason>>
    ELSE
      LET current  == df_1m[Len(df_1m)]
          previous == df_1m[Len(df_1m) - 1]
          price_near_ema ==
              is_price_near_ema(current.close, current.ema_fast, cfg.EMA_PROXIMITY_POINTS)
          rsi_in_zone ==
              FLe(cfg.RSI_SELL_ZONE[1], current.rsi) /\ FLe(current.rsi, cfg.RSI_SELL_ZONE[2])
          rsi_crossed ==
              check_rsi_cross(current.rsi, previous.rsi, cfg.RSI_LEVEL, "below")
          candle_closed_below ==
              check_candle_close(current.close, current.ema_fast, "below")
      IN  IF ~atr_valid(current, cfg) THEN <<NoType, NoReason>>
          ELSE IF price_near_ema /\ rsi_in_zone /\ rsi_crossed /\ cfg.ENABLE_READY_ALERT
            THEN <<"ready_sell", ReadyReason("ready_sell", current, previous)>>
          ELSE IF price_near_ema /\ rsi_crossed /\ candle_closed_below
            THEN <<"entry_sell",
                   EntryReason("entry_sell", current,
                               current.close + cfg.STOP_LOSS_POINTS * POINT,
                               current.close - cfg.TAKE_PROFIT_POINTS * POINT)>>
          ELSE <<NoType, NoReason>>

\* Mutant: the comparison with the window is reversed.
is_in_cooldown_reversed(cooldown, symbol, current_time, cfg) ==
    IF symbol \notin DOMAIN cooldown THEN FALSE
    ELSE current_time - cooldown[symbol] > cfg.SIGNAL_COOLDOWN_CANDLES

\* Mutant: the end of the window still counts as inside it.
is_in_cooldown_inclusive(cooldown, symbol, current_time, cfg) ==
    IF symbol \notin DOMAIN cooldown THEN FALSE
    ELSE current_time - cooldown[symbol] <= cfg.SIGNAL_COOLDOWN_CANDLES

\* Mutant: the window is one minute short.
is_in_cooldown_short(cooldown, symbol, current_time, cfg) ==
    IF symbol \notin DOMAIN cooldown THEN FALSE
    ELSE current_time - cooldown[symbol] < cfg.SIGNAL_COOLDOWN_CANDLES - 1

is_in_cooldown(cooldown, symbol, current_time, cfg) ==
    IF symbol \notin DOMAIN cooldown THEN FALSE
    ELSE LET last_signal_time == cooldown[symbol]
             cooldown_minutes == cfg.SIGNAL_COOLDOWN_CANDLES
             time_diff        == current_time - last_signal_time
         IN  time_diff < cooldown_minutes

\* Mutant: the map is replaced instead of updated.
update_cooldown_replace(cooldown, symbol, current_time) ==
    [s \in {symbol} |-> current_time]

update_cooldown(cooldown, symbol, current_time) ==
    [s \in DOMAIN cooldown \cup {symbol} |->
        IF s = symbol THEN current_time ELSE cooldown[s]]

\* Mutant: the sell rules are consulted whatever the buy rules returned.
analyze_sell_always(cooldown, df_5m, df_1m, symbol, current_time, cfg) ==
    IF is_in_cooldown(cooldown, symbol, current_time, cfg)
      THEN [ret |-> [type |-> "None"], cooldown |-> cooldown,
            consulted |-> [trend |-> FALSE, buy |-> FALSE, sell |-> FALSE, buy_type |-> "None"]]
    ELSE
      LET trend_info == analyze_trend(df_5m, symbol)
      IN  IF ~trend_info.valid
            THEN [ret |-> [type |-> "None"], cooldown |-> cooldown,
                  consulted |-> [trend |-> TRUE, buy |-> FALSE, sell |-> FALSE,
                                 buy_type |-> "None"]]
          ELSE
            LET buy  == check_buy_conditions(df_1m, trend_info, cfg)
                sell == check_sell_conditions(df_1m, trend_info, cfg)
                sig  == IF sell[1] # "None" THEN sell ELSE buy
                consulted == [trend |-> TRUE, buy |-> TRUE, sell |-> TRUE,
                              buy_type |-> buy[1]]
            IN  IF sig[1] # "None"
                  THEN [ ret |-> [ symbol    |-> symbol,
                                   type      |-> sig[1],
                                   reason    |-> sig[2],
                                   timestamp |-> current_time,
                                   price     |-> df_1m[Len(df_1m)].close ],
                         cooldown |-> IF IsEntry(sig[1])
                                        THEN update_cooldown(cooldown, symbol, current_time)
                                        ELSE cooldown,
                         consulted |-> consulted ]
                  ELSE [ret |-> [type |-> "None"], cooldown |-> cooldown,
                        consulted |-> consulted]

\* One analyze call: the signal returned (ret), the cooldown map it leaves, and
\* which evaluators it consulted.
NotConsulted == [trend |-> FALSE, buy |-> FALSE, sell |-> FALSE, buy_type |-> NoType]

\* analyze from the trend analysis on, for a call that passed the cooldown check.
analyze_after_check(cooldown, df_5m, df_1m, symbol, current_time, cfg) ==
    LET trend_info == analyze_trend(df_5m, symbol)
    IN  IF ~trend_info.valid
          THEN [ret |-> None, cooldown |-> cooldown,
                consulted |-> [NotConsulted EXCEPT !.trend = TRUE]]
        ELSE
          LET buy  == check_buy_conditions(df_1m, trend_info, cfg)
              sig  == IF buy[1] = NoType
                        THEN check_sell_conditions(df_1m, trend_info, cfg)
                        ELSE buy
              signal_type == sig[1]
              reason      == sig[2]
              consulted   == [trend |-> TRUE, buy |-> TRUE,
                              sell |-> (buy[1] = NoType), buy_type |-> buy[1]]
          IN  IF signal_type # NoType /\ reason # NoReason
                THEN [ ret |-> [ symbol    |-> symbol,
                                 type      |-> signal_type,
                                 reason    |-> reason,
                                 timestamp |-> current_time,
                                 price     |-> df_1m[Len(df_1m)].close ],
                       cooldown |-> IF IsEntry(signal_type)
                                      THEN update_cooldown(cooldown, symbol, current_time)
                                      ELSE cooldown,
                       consulted |-> consulted ]
                ELSE [ret |-> None, cooldown |-> cooldown, consulted |-> consulted]

\* Mutant: a call inside the window starts the window afresh.
analyze_restart_window(cooldown, df_5m, df_1m, symbol, current_time, cfg) ==
    IF is_in_cooldown(cooldown, symbol, current_time, cfg)
      THEN [ret |-> None, cooldown |-> update_cooldown(cooldown, symbol, current_time),
            consulted |-> NotConsulted]
    ELSE analyze_after_check(cooldown, df_5m, df_1m, symbol, current_time, cfg)

analyze(cooldown, df_5m, df_1m, symbol, current_time, cfg) ==
    IF is_in_cooldown(cooldown, symbol, current_time, cfg)
      THEN [ret |-> None, cooldown |-> cooldown, consulted |-> NotConsulted]
    ELSE analyze_after_check(cooldown, df_5m, df_1m, symbol, current_time, cfg)

-----------------------------------------------------------------------------
(* Inputs: frames of indicator snapshots, as get_data_with_indicators returns them *)

SlowRow(fast, close) == [ema_fast |-> fast, ema_slow |-> 1000, close |-> close]

\* bullish, bearish and neutral latest rows of the slow frame
SlowRows == {SlowRow(1010, 1010), SlowRow(990, 990), SlowRow(1010, 990)}

\* latest rows of the fast frame; the last two are under the volatility floor
FastRows ==
    [close : {995, 1005}, ema_fast : {1000}, rsi : {40, 45, 55, 60}, atr : {5}]
        \cup { [close |-> 1005, ema_fast |-> 1000, rsi |-> 55, atr |-> 4],
               [close |-> 995, ema_fast |-> 1000, rsi |-> 45, atr |-> 4] }

\* The row before the latest: only its rsi is read.
PrevRows == [close : {1000}, ema_fast : {1000}, rsi : {45, 55}, atr : {5}]

\* Frames of one row (too short to classify) and of two rows.
SlowFrames ==
    {<<SlowRow(1010, 1010)>>} \cup {<<SlowRow(1000, 1000), r>> : r \in SlowRows}

FastFrames ==
    {<<[close |-> 1005, ema_fast |-> 1000, rsi |-> 55, atr |-> 5]>>}
        \cup {<<p, r>> : p \in PrevRows, r \in FastRows}

\* Richer inputs for the direct evaluation of the entry rules.
EvalRows ==
    [close : {980, 990, 995, 1000, 1005, 1010, 1020}, ema_fast : {1000},
     rsi : {NaN, 38, 40, 45, 50, 55, 60, 62}, atr : {4, 5, 6}]

EvalPrevRows == [close : {1000}, ema_fast : {1000}, rsi : {NaN, 45, 50, 55}, atr : {5}]

EvalFrames ==
    {<< >>} \cup {<<[close |-> 1005, ema_fast |-> 1000, rsi |-> 55, atr |-> 5]>>}
            \cup {<<p, r>> : p \in EvalPrevRows, r \in EvalRows}

Directions == {"bullish", "bearish", "neutral"}

NoCall == [symbol |-> "none", df_5m |-> << >>, df_1m |-> << >>, time |-> 0]
EmptyMap == [s \in {} |-> 0]
Idle == [kind |-> "idle"]

\* The callers that may be inside analyze, and a caller that is in no call.
Threads == {1, 2}
Outside == [pc |-> "outside", call |-> NoCall, ret |-> None, raced |-> {}]

\* PerformanceTracker.__init__: the default balance of a new tracker, 1000.0 dollars,
\* in cents.
initial_balance == 100000

\* The state after construction of the callers, the polling loop and the tracker.
Fresh ==
    /\ threads = [t \in Threads |-> Outside]
    /\ main_current_time = 0
    /\ pending = << >>
    /\ last_signals = EmptyMap
    /\ sent = << >>
    /\ outcome = Idle
    /\ trades = << >>
    /\ current_balance = initial_balance
    /\ daily_stats = EmptyMap
    /\ tracker_call = Idle

-----------------------------------------------------------------------------
(* The strategy instance under a polling caller *)

Init ==
    /\ config \in Configs
    /\ now = 0
    /\ signal_cooldown = EmptyMap
    /\ call = NoCall
    /\ result = None
    /\ trace = NotConsulted
    /\ last_entry = EmptyMap
    /\ eval_in = Idle
    /\ eval_out = Idle
    /\ Fresh

\* datetime.now() between two calls: the clock advances.
Tick ==
    /\ now < MaxTime
    /\ now' = now + 1
    /\ UNCHANGED <<config, signal_cooldown, call, result, trace, last_entry, eval_in, eval_out>>
    /\ UNCHANGED <<thread_vars, main_vars, tracker_vars>>

\* strategy.analyze(df_trend, df_entry, symbol)
Analyze ==
    \E symbol \in Symbols, df_5m \in SlowFrames, df_1m \in FastFrames :
      \E out \in {analyze(signal_cooldown, df_5m, df_1m, symbol, now, config)} :
        /\ signal_cooldown' = out.cooldown
        /\ result' = out.ret
        /\ trace' = out.consulted
        /\ call' = [symbol |-> symbol, df_5m |-> df_5m, df_1m |-> df_1m, time |-> now]
        /\ last_entry' = IF IsEntry(out.ret.type)
                           THEN [s \in DOMAIN last_entry \cup {symbol} |->
                                    IF s = symbol THEN now ELSE last_entry[s]]
                           ELSE last_entry
        /\ UNCHANGED <<config, now, eval_in, eval_out>>
        /\ UNCHANGED <<thread_vars, main_vars, tracker_vars>>

Next == Tick \/ Analyze

Spec == Init /\ [][Next]_vars

-----------------------------------------------------------------------------
(* Two callers sharing one strategy instance, with no lock around analyze *)

\* The frames the callers pass: a bullish slow frame, and fast frames whose momentum
\* either crosses the midline (entry_buy) or stays under it (no signal).
BullishFrame == <<SlowRow(1000, 1000), SlowRow(1010, 1010)>>
ThreadFrames ==
    {f \in FastFrames : /\ Len(f) = 2
                        /\ f[1].rsi = 45
                        /\ f[2].close = 1005 /\ f[2].atr = 5 /\ f[2].rsi \in {45, 60}}

\* Another caller is between its cooldown check and its return, for the same symbol.
Overlaps(t, symbol) ==
    \E u \in Threads \ {t} :
        threads[u].pc = "evaluating" /\ threads[u].call.symbol = symbol

\* analyze, lines 253-257: the caller reads the clock and checks the cooldown map; a
\* call inside the window returns None at once.  A call that passes the check while
\* another one for the same symbol is still under way is an overlap: the symbol is
\* noted with every caller (history).
Enter(t) ==
    /\ threads[t].pc = "outside"
    /\ \E symbol \in Symbols, df_1m \in ThreadFrames :
         threads' =
            IF is_in_cooldown(signal_cooldown, symbol, now, config)
              THEN [threads EXCEPT ![t].ret = None]
              ELSE [u \in Threads |->
                      LET raced == IF Overlaps(t, symbol)
                                     THEN threads[u].raced \cup {symbol}
                                     ELSE threads[u].raced
                      IN  IF u = t
                            THEN [ pc    |-> "evaluating",
                                   call  |-> [symbol |-> symbol, df_5m |-> BullishFrame,
                                              df_1m |-> df_1m, time |-> now],
                                   ret   |-> None,
                                   raced |-> raced ]
                            ELSE [threads[u] EXCEPT !.raced = raced]]
    /\ UNCHANGED <<config, now, signal_cooldown, call, result, trace, last_entry,
                   eval_in, eval_out, main_vars, tracker_vars>>

\* analyze, lines 260-286: the rest of the call, with the update of the cooldown map.
Complete(t) ==
    /\ threads[t].pc = "evaluating"
    /\ \E out \in {analyze_after_check(signal_cooldown, threads[t].call.df_5m,
                                       threads[t].call.df_1m, threads[t].call.symbol,
                                       threads[t].call.time, config)} :
         /\ signal_cooldown' = out.cooldown
         /\ threads' = [threads EXCEPT ![t] =
                           [pc |-> "outside", call |-> NoCall, ret |-> out.ret,
                            raced |-> threads[t].raced]]
    /\ UNCHANGED <<config, now, call, result, trace, last_entry, eval_in, eval_out,
                   main_vars, tracker_vars>>

NextThreads == Tick \/ (\E t \in Threads : Enter(t)) \/ (\E t \in Threads : Complete(t))

SpecThreads == Init /\ [][NextThreads]_vars

-----------------------------------------------------------------------------
(* One caller in a trending market, under a clock that keeps advancing *)

\* strategy.analyze on the frames above: each call returns entry_buy or nothing.
AnalyzeTrending ==
    \E symbol \in Symbols, df_1m \in ThreadFrames :
      \E out \in {analyze(signal_cooldown, BullishFrame, df_1m, symbol, now, config)} :
        /\ signal_cooldown' = out.cooldown
        /\ result' = out.ret
        /\ trace' = out.consulted
        /\ call' = [symbol |-> symbol, df_5m |-> BullishFrame, df_1m |-> df_1m, time |-> now]
        /\ last_entry' = IF IsEntry(out.ret.type)
                           THEN [s \in DOMAIN last_entry \cup {symbol} |->
                                    IF s = symbol THEN now ELSE last_entry[s]]
                           ELSE last_entry
        /\ UNCHANGED <<config, now, eval_in, eval_out>>
        /\ UNCHANGED <<thread_vars, main_vars, tracker_vars>>

NextLive == Tick \/ AnalyzeTrending

\* time.sleep returns and datetime.now() moves on: the clock is never held for ever.
SpecLive == Init /\ [][NextLive]_vars /\ WF_vars(Tick)

-----------------------------------------------------------------------------
(* The entry rule evaluators applied directly to a frame and a bias *)

InitEval ==
    /\ config \in Configs
    /\ now = 0
    /\ signal_cooldown = EmptyMap
    /\ call = NoCall
    /\ result = None
    /\ trace = NotConsulted
    /\ last_entry = EmptyMap
    /\ eval_in \in [kind : {"args"}, df_1m : EvalFrames, direction : Directions]
    /\ eval_out = Idle
    /\ Fresh

Evaluate ==
    /\ eval_out = Idle
    /\ LET trend_info == [direction |-> eval_in.direction,
                          valid     |-> eval_in.direction # "neutral"]
       IN  eval_out' = [kind |-> "done",
                        buy  |-> check_buy_conditions(eval_in.df_1m, trend_info, config),
                        sell |-> check_sell_conditions(eval_in.df_1m, trend_info, config)]
    /\ UNCHANGED <<config, now, signal_cooldown, call, result, trace, last_entry, eval_in>>
    /\ UNCHANGED <<thread_vars, main_vars, tracker_vars>>

NextEval == Evaluate

SpecEval == InitEval /\ [][NextEval]_vars

-----------------------------------------------------------------------------
(* The trend classifier applied directly to a slow frame *)

TrendRows == [ema_fast : {990, 1000, 1010}, ema_slow : {1000, 1005}, close : {990, 1000, 1010}]

TrendFrames ==
    {<< >>} \cup {<<r>> : r \in TrendRows} \cup {<<p, r>> : p \in TrendRows, r \in TrendRows}

InitTrend ==
    /\ config \in Configs
    /\ now = 0
    /\ signal_cooldown = EmptyMap
    /\ call = NoCall
    /\ result = None
    /\ trace = NotConsulted
    /\ last_entry = EmptyMap
    /\ eval_in \in [kind : {"frame"}, df_5m : TrendFrames, symbol : {"EURUSD"}]
    /\ eval_out = Idle
    /\ Fresh

Classify ==
    /\ eval_out = Idle
    /\ eval_out' = [kind      |-> "trend",
                    direction |-> get_trend_direction(eval_in.df_5m),
                    info      |-> analyze_trend(eval_in.df_5m, eval_in.symbol)]
    /\ UNCHANGED <<config, now, signal_cooldown, call, result, trace, last_entry, eval_in>>
    /\ UNCHANGED <<thread_vars, main_vars, tracker_vars>>

NextTrend == Classify

SpecTrend == InitTrend /\ [][NextTrend]_vars

-----------------------------------------------------------------------------
(* indicators.py on candle sequences.  A float is modelled as an exact      *)
(* fraction n/d in lowest terms with d > 0; d = 0 marks the two special     *)
(* values of IEEE arithmetic.  An infinity stands for either sign: the only *)
(* one the code produces is rs = avg_gains / avg_losses over a zero of      *)
(* either sign, and 100 - 100 / (1 + rs) is 100 for both.  Rounding is not  *)
(* modelled.                                                                *)

\* The longest candle sequence drawn.
MaxLen == 3

RECURSIVE Gcd(_, _)
\* Greatest common divisor of two naturals.
Gcd(a, b) == IF b = 0 THEN a ELSE Gcd(b, a % b)

\* The fraction n/d, d > 0, in lowest terms.
Frac(n, d) == LET g == Gcd(Abs(n), d) IN [n |-> n \div g, d |-> d \div g]

\* An integer as a float.
Num(i) == [n |-> i, d |-> 1]

\* numpy's nan and inf.
nan == [n |-> 0, d |-> 0]
inf == [n |-> 1, d |-> 0]

\* x is an ordinary number.
IsFinite(x) == x.d > 0

\* -x
Negate(x) == IF IsFinite(x) THEN [n |-> 0 - x.n, d |-> x.d] ELSE x

\* x + y
Plus(x, y) ==
    IF x = nan \/ y = nan \/ (x = inf /\ y = inf) THEN nan
    ELSE IF x = inf \/ y = inf THEN inf
    ELSE LET m == (x.d \div Gcd(x.d, y.d)) * y.d
         IN  Frac(x.n * (m \div x.d) + y.n * (m \div y.d), m)

\* x - y
Minus(x, y) == Plus(x, Negate(y))

\* x * y
Times(x, y) ==
    IF x = nan \/ y = nan THEN nan
    ELSE IF x = inf \/ y = inf
         THEN (IF x = Num(0) \/ y = Num(0) THEN nan ELSE inf)
    ELSE Frac(x.n * y.n, x.d * y.d)

\* x / y as numpy divides: 0/0 is nan, any other number over 0 is an infinity.
Over(x, y) ==
    IF x = nan \/ y = nan \/ (x = inf /\ y = inf) THEN nan
    ELSE IF x = inf THEN inf
    ELSE IF y = inf THEN Num(0)
    ELSE IF y.n = 0 THEN (IF x.n = 0 THEN nan ELSE inf)
    ELSE IF y.n > 0 THEN Frac(x.n * y.d, x.d * y.n)
    ELSE Frac((0 - x.n) * y.d, x.d * (0 - y.n))

\* abs(x)
Magnitude(x) == IF IsFinite(x) THEN [n |-> Abs(x.n), d |-> x.d] ELSE x

\* x < y; False when either side is nan.  No comparison in the code meets an infinity.
Less(x, y) == IsFinite(x) /\ IsFinite(y) /\ x.n * y.d < y.n * x.d

\* x <= y, under the same rule.
AtMost(x, y) == IsFinite(x) /\ IsFinite(y) /\ x.n * y.d <= y.n * x.d

\* One column of a frame of candles, as floats.
column(df, name) == [i \in 1..Len(df) |-> Num(df[i][name])]

\* Series.diff(): the first element has no predecessor.
diff(data) == [i \in 1..Len(data) |-> IF i = 1 THEN nan ELSE Minus(data[i], data[i - 1])]

\* Series.shift(): every element moves one place later.
shift(data) == [i \in 1..Len(data) |-> IF i = 1 THEN nan ELSE data[i - 1]]

\* One step of Series.ewm(span=period, adjust=False).mean():
\* weighted = (1 - alpha) * weighted + alpha * cur, kept as it is when cur equals it.
ewm_step(weighted, cur, period) ==
    LET alpha == Frac(2, period + 1)
    IN  IF weighted = cur THEN weighted
        ELSE Plus(Times(Minus(Num(1), alpha), weighted), Times(alpha, cur))

RECURSIVE ewm_at(_, _, _)
\* The smoothed value at place i: seeded by the first value, then one step per value.
\* Every series the code smooths holds numbers only.
ewm_at(vals, period, i) ==
    IF i = 1 THEN vals[1]
    ELSE ewm_step(ewm_at(vals, period, i - 1), vals[i], period)

\* The whole smoothed series.
ewm_mean(vals, period) == [i \in 1..Len(vals) |-> ewm_at(vals, period, i)]

\* Mutant: the recurrence starts from zero instead of the first value.
calculate_ema_zero_seed(data, period) ==
    ewm_mean([i \in 1..Len(data) |-> IF i = 1 THEN Times(Frac(2, period + 1), data[1]) ELSE data[i]],
             period)

RECURSIVE running_sum(_, _)
\* The sum of the first i values.
running_sum(vals, i) == IF i = 0 THEN Num(0) ELSE Plus(running_sum(vals, i - 1), vals[i])

\* Mutant: the first `period` values are simple averages of the values so far.
calculate_ema_sma_warmup(data, period) ==
    [i \in 1..Len(data) |->
        IF i <= period THEN Over(running_sum(data, i), Num(i)) ELSE ewm_at(data, period, i)]

\* calculate_ema
calculate_ema(data, period) == ewm_mean(data, period)

\* gains = delta.where(delta > 0, 0)
rsi_gains(data) ==
    LET delta == diff(data)
    IN  [i \in 1..Len(data) |-> IF Less(Num(0), delta[i]) THEN delta[i] ELSE Num(0)]

\* losses = -delta.where(delta < 0, 0)
rsi_losses(data) ==
    LET delta == diff(data)
    IN  [i \in 1..Len(data) |-> Negate(IF Less(delta[i], Num(0)) THEN delta[i] ELSE Num(0))]

\* avg_gains and avg_losses of calculate_rsi
rsi_avg_gains(data, period) == ewm_mean(rsi_gains(data), period)
rsi_avg_losses(data, period) == ewm_mean(rsi_losses(data), period)

\* calculate_rsi
calculate_rsi(data, period) ==
    LET avg_gains  == rsi_avg_gains(data, period)
        avg_losses == rsi_avg_losses(data, period)
        rs         == [i \in 1..Len(data) |-> Over(avg_gains[i], avg_losses[i])]
    IN  [i \in 1..Len(data) |-> Minus(Num(100), Over(Num(100), Plus(Num(1), rs[i])))]

\* max(axis=1) of one row: the largest of the values that are numbers, nan if none is.
row_max(values) ==
    LET present == {v \in values : IsFinite(v)}
    IN  IF present = {} THEN nan
        ELSE CHOOSE v \in present : \A w \in present : AtMost(w, v)

\* Mutant: the range of a candle is taken as low - high.
calculate_atr_low_minus_high(high, low, close, period) ==
    LET prev == shift(close)
        tr   == [i \in 1..Len(close) |->
                    row_max({ Minus(low[i], high[i]),
                              Magnitude(Minus(high[i], prev[i])),
                              Magnitude(Minus(low[i], prev[i])) })]
    IN  ewm_mean(tr, period)

\* Mutant: the true range looks at the close of the following candle.
calculate_atr_next_close(high, low, close, period) ==
    LET next == [i \in 1..Len(close) |-> IF i = Len(close) THEN nan ELSE close[i + 1]]
        tr   == [i \in 1..Len(close) |->
                    row_max({ Minus(high[i], low[i]),
                              Magnitude(Minus(high[i], next[i])),
                              Magnitude(Minus(low[i], next[i])) })]
    IN  ewm_mean(tr, period)

\* Mutant: a row with an undefined term has an undefined maximum.
calculate_atr_undefined_first(high, low, close, period) ==
    LET prev == shift(close)
        tr   == [i \in 1..Len(close) |->
                    IF IsFinite(prev[i])
                      THEN row_max({ Minus(high[i], low[i]),
                                     Magnitude(Minus(high[i], prev[i])),
                                     Magnitude(Minus(low[i], prev[i])) })
                      ELSE nan]
    IN  ewm_mean(tr, period)

\* calculate_atr
calculate_atr(high, low, close, period) ==
    LET prev == shift(close)
        tr1  == [i \in 1..Len(close) |-> Minus(high[i], low[i])]
        tr2  == [i \in 1..Len(close) |-> Magnitude(Minus(high[i], prev[i]))]
        tr3  == [i \in 1..Len(close) |-> Magnitude(Minus(low[i], prev[i]))]
        tr   == [i \in 1..Len(close) |-> row_max({tr1[i], tr2[i], tr3[i]})]
    IN  ewm_mean(tr, period)

\* add_indicators: the frame with its four indicator columns.
add_indicators(df, ema_fast, ema_slow, rsi_period, atr_period) ==
    LET close == column(df, "close")
        fast  == calculate_ema(close, ema_fast)
        slow  == calculate_ema(close, ema_slow)
        rsi   == calculate_rsi(close, rsi_period)
        atr   == calculate_atr(column(df, "high"), column(df, "low"), close, atr_period)
    IN  [i \in 1..Len(df) |->
            [ high     |-> df[i].high,
              low      |-> df[i].low,
              close    |-> df[i].close,
              ema_fast |-> fast[i],
              ema_slow |-> slow[i],
              rsi      |-> rsi[i],
              atr      |-> atr[i] ]]

\* The prices a candle is drawn from, and the candles: low <= close <= high.
Prices == {1, 2, 4}
Candles == {c \in [high : Prices, low : Prices, close : Prices] :
                c.low <= c.close /\ c.close <= c.high}

RECURSIVE CandleFrames(_)
\* The candle sequences of 1 to n candles.
CandleFrames(n) ==
    IF n = 1 THEN {<<c>> : c \in Candles}
    ELSE LET shorter == CandleFrames(n - 1)
         IN  shorter \cup {Append(s, c) : s \in {t \in shorter : Len(t) = n - 1}, c \in Candles}

\* The periods a caller passes: the defaults of add_indicators, and two short settings.
PeriodSettings ==
    { [ema_fast |-> 20, ema_slow |-> 50, rsi_period |-> 14, atr_period |-> 14],
      [ema_fast |-> 2,  ema_slow |-> 3,  rsi_period |-> 2,  atr_period |-> 2],
      [ema_fast |-> 1,  ema_slow |-> 2,  rsi_period |-> 1,  atr_period |-> 1] }

\* One add_indicators call on each candle sequence and each setting of the periods.
\* The strategy's settings play no part in it; one of them is held.
InitInd ==
    /\ config \in {c \in Configs : c.ENABLE_READY_ALERT /\ c.RSI_BUY_ZONE = <<40, 50>>}
    /\ now = 0
    /\ signal_cooldown = EmptyMap
    /\ call = NoCall
    /\ result = None
    /\ trace = NotConsulted
    /\ last_entry = EmptyMap
    /\ eval_in \in [kind : {"candles"}, df : CandleFrames(MaxLen), periods : PeriodSettings]
    /\ eval_out = Idle
    /\ Fresh

Compute ==
    /\ eval_out = Idle
    /\ eval_out' = [ kind |-> "indicators",
                     df   |-> add_indicators(eval_in.df, eval_in.periods.ema_fast,
                                             eval_in.periods.ema_slow,
                                             eval_in.periods.rsi_period,
                                             eval_in.periods.atr_period) ]
    /\ UNCHANGED <<config, now, signal_cooldown, call, result, trace, last_entry, eval_in>>
    /\ UNCHANGED <<thread_vars, main_vars, tracker_vars>>

NextInd == Compute

SpecInd == InitInd /\ [][NextInd]_vars

-----------------------------------------------------------------------------
(* performance_tracker.py.  Prices are in units of 0.00001 and money in cents, so  *)
(* that the profit of calculate_profit, rounded to 2 places, is a whole number.    *)
(* _save_data writes the three fields to a file and changes none of them.          *)

\* The most trades the tracker is given.
MaxTrades == 2

\* A field that holds None or a number.
Nothing == << >>
Some(x) == <<x>>

\* calculate_profit: pips * pip_value * lot_size * 100 with pip_value 1.0 and lot_size
\* 0.01 is one dollar a pip; a pip is 10 price units, so a unit is 10 cents.
calculate_profit(entry_price, exit_price, direction) ==
    IF direction = "BUY" THEN (exit_price - entry_price) * 10
    ELSE (entry_price - exit_price) * 10

\* add_trade: the trades with the new trade appended; the new trade is the last one.
add_trade(all_trades, symbol, direction, entry_price, stop_loss, take_profit, timestamp) ==
    Append(all_trades,
           [ id            |-> Len(all_trades) + 1,
             symbol        |-> symbol,
             direction     |-> direction,
             entry_price   |-> entry_price,
             stop_loss     |-> stop_loss,
             take_profit   |-> take_profit,
             entry_time    |-> timestamp,
             status        |-> "open",
             profit_if_tp  |-> calculate_profit(entry_price, take_profit, direction),
             loss_if_sl    |-> calculate_profit(entry_price, stop_loss, direction),
             actual_profit |-> Nothing,
             exit_price    |-> Nothing,
             exit_time     |-> Nothing ])

\* The statistics of a day without a closed trade.
NewDay == [total_trades |-> 0, winning_trades |-> 0, losing_trades |-> 0,
           total_profit |-> 0, win_rate |-> Num(0)]

\* Mutant: a trade that closes with no profit and no loss counts as winning.
count_trade_zero_wins(stats, actual_profit) ==
    LET winning == stats.winning_trades + (IF actual_profit >= 0 THEN 1 ELSE 0)
        total   == stats.total_trades + 1
    IN  [ total_trades   |-> total,
          winning_trades |-> winning,
          losing_trades  |-> stats.losing_trades + (IF actual_profit >= 0 THEN 0 ELSE 1),
          total_profit   |-> stats.total_profit + actual_profit,
          win_rate       |-> Times(Frac(winning, total), Num(100)) ]

\* The statistics of a day after one more trade closed with actual_profit.
count_trade(stats, actual_profit) ==
    LET winning == stats.winning_trades + (IF actual_profit > 0 THEN 1 ELSE 0)
        total   == stats.total_trades + 1
    IN  [ total_trades   |-> total,
          winning_trades |-> winning,
          losing_trades  |-> stats.losing_trades + (IF actual_profit > 0 THEN 0 ELSE 1),
          total_profit   |-> stats.total_profit + actual_profit,
          win_rate       |-> Times(Frac(winning, total), Num(100)) ]

\* Mutant: the trade is looked up by its id alone, open or not.
close_trade_any_status(all_trades, balance, stats, trade_id, exit_price, timestamp) ==
    LET found == {i \in 1..Len(all_trades) : all_trades[i].id = trade_id}
    IN  IF found = {}
          THEN [ret |-> None, trades |-> all_trades, current_balance |-> balance,
                daily_stats |-> stats]
        ELSE
          LET i      == CHOOSE j \in found : \A k \in found : j <= k
              trade  == all_trades[i]
              actual_profit ==
                  calculate_profit(trade.entry_price, exit_price, trade.direction)
              closed == [trade EXCEPT !.status = "closed",
                                      !.exit_price = Some(exit_price),
                                      !.exit_time = Some(timestamp),
                                      !.actual_profit = Some(actual_profit)]
              day    == IF timestamp \in DOMAIN stats THEN stats[timestamp] ELSE NewDay
          IN  [ ret             |-> closed,
                trades          |-> [all_trades EXCEPT ![i] = closed],
                current_balance |-> balance + actual_profit,
                daily_stats     |-> [d \in DOMAIN stats \cup {timestamp} |->
                                        IF d = timestamp THEN count_trade(day, actual_profit)
                                        ELSE stats[d]] ]

\* Mutant: the balance is set to the initial balance plus the profit of this trade.
close_trade_balance_reset(all_trades, balance, stats, trade_id, exit_price, timestamp) ==
    LET found == {i \in 1..Len(all_trades) :
                    all_trades[i].id = trade_id /\ all_trades[i].status = "open"}
    IN  IF found = {}
          THEN [ret |-> None, trades |-> all_trades, current_balance |-> balance,
                daily_stats |-> stats]
        ELSE
          LET i      == CHOOSE j \in found : \A k \in found : j <= k
              trade  == all_trades[i]
              actual_profit ==
                  calculate_profit(trade.entry_price, exit_price, trade.direction)
              closed == [trade EXCEPT !.status = "closed",
                                      !.exit_price = Some(exit_price),
                                      !.exit_time = Some(timestamp),
                                      !.actual_profit = Some(actual_profit)]
              day    == IF timestamp \in DOMAIN stats THEN stats[timestamp] ELSE NewDay
          IN  [ ret             |-> closed,
                trades          |-> [all_trades EXCEPT ![i] = closed],
                current_balance |-> initial_balance + actual_profit,
                daily_stats     |-> [d \in DOMAIN stats \cup {timestamp} |->
                                        IF d = timestamp THEN count_trade(day, actual_profit)
                                        ELSE stats[d]] ]

\* close_trade: what it returns and the three fields it leaves.  The trade closed is
\* the first open one with the id; the day of the timestamp keys the statistics.
close_trade(all_trades, balance, stats, trade_id, exit_price, timestamp) ==
    LET found == {i \in 1..Len(all_trades) :
                    all_trades[i].id = trade_id /\ all_trades[i].status = "open"}
    IN  IF found = {}
          THEN [ret |-> None, trades |-> all_trades, current_balance |-> balance,
                daily_stats |-> stats]
        ELSE
          LET i      == CHOOSE j \in found : \A k \in found : j <= k
              trade  == all_trades[i]
              actual_profit ==
                  calculate_profit(trade.entry_price, exit_price, trade.direction)
              closed == [trade EXCEPT !.status = "closed",
                                      !.exit_price = Some(exit_price),
                                      !.exit_time = Some(timestamp),
                                      !.actual_profit = Some(actual_profit)]
              day    == IF timestamp \in DOMAIN stats THEN stats[timestamp] ELSE NewDay
          IN  [ ret             |-> closed,
                trades          |-> [all_trades EXCEPT ![i] = closed],
                current_balance |-> balance + actual_profit,
                daily_stats     |-> [d \in DOMAIN stats \cup {timestamp} |->
                                        IF d = timestamp THEN count_trade(day, actual_profit)
                                        ELSE stats[d]] ]

\* What the callers of the tracker pass: exit prices under, on and over the entry price
\* 1.10000, and two days.
TradePrices == {109980, 110000, 110030}
Days == {1, 2}

\* tracker.add_trade(...)
AddTrade ==
    /\ Len(trades) < MaxTrades
    /\ \E symbol \in {"EURUSD"}, direction \in {"BUY", "SELL"}, timestamp \in {1} :
         /\ trades' = add_trade(trades, symbol, direction, 110000,
                                IF direction = "BUY" THEN 109980 ELSE 110020,
                                IF direction = "BUY" THEN 110030 ELSE 109970, timestamp)
         /\ tracker_call' = [kind |-> "add_trade", ret |-> trades'[Len(trades')]]
    /\ UNCHANGED <<config, now, signal_cooldown, call, result, trace, last_entry,
                   eval_in, eval_out, thread_vars, main_vars, current_balance, daily_stats>>

\* tracker.close_trade(trade_id, exit_price, timestamp), for ids in and out of use.
CloseTrade ==
    /\ \E trade_id \in 1..(MaxTrades + 1), exit_price \in TradePrices, timestamp \in Days :
         \E out \in {close_trade(trades, current_balance, daily_stats,
                                 trade_id, exit_price, timestamp)} :
            /\ trades' = out.trades
            /\ current_balance' = out.current_balance
            /\ daily_stats' = out.daily_stats
            /\ tracker_call' = [kind |-> "close_trade", trade_id |-> trade_id,
                                exit_price |-> exit_price, ret |-> out.ret]
    /\ UNCHANGED <<config, now, signal_cooldown, call, result, trace, last_entry,
                   eval_in, eval_out, thread_vars, main_vars>>

NextTracker == AddTrade \/ CloseTrade

\* A new tracker with no trades_history.json to load.  The strategy's settings play no
\* part in it; one of them is held.
InitTracker ==
    /\ Init
    /\ config.ENABLE_READY_ALERT /\ config.RSI_BUY_ZONE = <<40, 50>>

SpecTracker == InitTracker /\ [][NextTracker]_vars

-----------------------------------------------------------------------------
(* main.py: the polling loop, from the top of a cycle to the handling of a signal. *)
(* The time filter and the daily report are left out.                               *)

\* config.TRADING_PAIRS, in the order the for loop visits them.
TRADING_PAIRS == <<"EURUSD", "GBPUSD">>

\* The methods a TelegramNotifier object has.
TelegramNotifier ==
    { "send_message", "send_signal", "_get_signal_icon", "_format_signal_message",
      "send_startup_message", "send_error_message" }

\* signal_key = f"{symbol}_{signal['type']}"
signal_key(signal) == <<signal.symbol, signal.type>>

\* How a pass of the for loop ends when analyze was not reached or returned None.
Unhandled(kind) == [kind |-> kind, path |-> "none", raised |-> "none"]

\* main, lines 102-133, for the signal analyze returned: the last_signals, the alerts
\* sent and the trades it leaves, and how the pass ended.  An exception ends the pass
\* in the handler at line 137 with whatever was done before it.
handle_signal(signal, seen, delivered, all_trades, current, cfg) ==
    IF signal = None
      THEN [last_signals |-> seen, sent |-> delivered, trades |-> all_trades,
            outcome |-> Unhandled("no signal")]
    ELSE IF /\ signal_key(signal) \in DOMAIN seen
            /\ current - seen[signal_key(signal)] < cfg.SIGNAL_COOLDOWN_CANDLES
      THEN [last_signals |-> seen, sent |-> delivered, trades |-> all_trades,
            outcome |-> Unhandled("suppressed")]
    ELSE
      LET marked == [k \in DOMAIN seen \cup {signal_key(signal)} |->
                        IF k = signal_key(signal) THEN current ELSE seen[k]]
          path   == IF signal.type = "ready" THEN "ready" ELSE "entry"
          method == IF path = "ready" THEN "send_ready_alert" ELSE "send_entry_alert"
          alert  == [path |-> path, signal |-> signal, time |-> current]
      IN  IF path = "ready" /\ ~cfg.ENABLE_READY_ALERT
            THEN [last_signals |-> marked, sent |-> delivered, trades |-> all_trades,
                  outcome |-> [kind |-> "handled", path |-> path, raised |-> "none"]]
          ELSE IF method \notin TelegramNotifier
            THEN [last_signals |-> marked, sent |-> delivered, trades |-> all_trades,
                  outcome |-> [kind |-> "handled", path |-> path,
                               raised |-> "AttributeError"]]
          ELSE IF "direction" \notin DOMAIN signal
            THEN [last_signals |-> marked, sent |-> Append(delivered, alert),
                  trades |-> all_trades,
                  outcome |-> [kind |-> "handled", path |-> path, raised |-> "KeyError"]]
          ELSE IF path = "ready"
            THEN [last_signals |-> marked, sent |-> Append(delivered, alert),
                  trades |-> all_trades,
                  outcome |-> [kind |-> "handled", path |-> path, raised |-> "none"]]
          ELSE IF "stop_loss" \notin DOMAIN signal \/ "take_profit" \notin DOMAIN signal
            THEN [last_signals |-> marked, sent |-> Append(delivered, alert),
                  trades |-> all_trades,
                  outcome |-> [kind |-> "handled", path |-> path, raised |-> "KeyError"]]
          ELSE [last_signals |-> marked, sent |-> Append(delivered, alert),
                trades |-> add_trade(all_trades, signal.symbol, signal.direction,
                                     signal.price, signal.stop_loss, signal.take_profit,
                                     current),
                outcome |-> [kind |-> "handled", path |-> path, raised |-> "none"]]

\* The fast frames the data fetcher returns in this market: momentum under the
\* midline, crossing it inside the wider buy zone, or crossing it beyond the zones.
PollFrames ==
    {f \in FastFrames : /\ Len(f) = 2
                        /\ f[1].rsi = 45
                        /\ f[2].close = 1005 /\ f[2].atr = 5 /\ f[2].rsi \in {45, 55, 60}}

\* main, line 64, and the start of the for loop at line 78.
StartCycle ==
    /\ pending = << >>
    /\ main_current_time' = now
    /\ pending' = TRADING_PAIRS
    /\ UNCHANGED <<config, now, signal_cooldown, call, result, trace, last_entry,
                   eval_in, eval_out, thread_vars, last_signals, sent, outcome,
                   tracker_vars>>

\* main, lines 81-97: the fetcher has no data for the symbol and the loop moves on.
NoData ==
    /\ pending # << >>
    /\ pending' = Tail(pending)
    /\ outcome' = Unhandled("no data")
    /\ UNCHANGED <<config, now, signal_cooldown, call, result, trace, last_entry,
                   eval_in, eval_out, thread_vars, main_current_time, last_signals,
                   sent, tracker_vars>>

\* main, lines 81-139: one pass of the for loop with data for the symbol.
PollSymbol ==
    /\ pending # << >>
    /\ \E df_1m \in PollFrames :
         \E out \in {analyze(signal_cooldown, BullishFrame, df_1m, Head(pending), now,
                             config)} :
           \E h \in {handle_signal(out.ret, last_signals, sent, trades,
                                   main_current_time, config)} :
             /\ signal_cooldown' = out.cooldown
             /\ result' = out.ret
             /\ trace' = out.consulted
             /\ call' = [symbol |-> Head(pending), df_5m |-> BullishFrame,
                         df_1m |-> df_1m, time |-> now]
             /\ last_entry' = IF IsEntry(out.ret.type)
                                THEN [s \in DOMAIN last_entry \cup {Head(pending)} |->
                                         IF s = Head(pending) THEN now ELSE last_entry[s]]
                                ELSE last_entry
             /\ last_signals' = h.last_signals
             /\ sent' = h.sent
             /\ trades' = h.trades
             /\ outcome' = h.outcome
    /\ pending' = Tail(pending)
    /\ UNCHANGED <<config, now, eval_in, eval_out, thread_vars, main_current_time,
                   current_balance, daily_stats, tracker_call>>

NextMain == Tick \/ StartCycle \/ NoData \/ PollSymbol

SpecMain == Init /\ [][NextMain]_vars

-----------------------------------------------------------------------------
(* The rules as the specification words them, on plain numbers *)

\* The classes of signal kinds.
IsReady(signal_type) == signal_type \in {"ready_buy", "ready_sell"}
IsBuy(signal_type) == signal_type \in {"ready_buy", "entry_buy"}
IsSell(signal_type) == signal_type \in {"ready_sell", "entry_sell"}

Latest(df) == df[Len(df)]
Before(df) == df[Len(df) - 1]

\* Bias of the slow frame: bullish, bearish, neutral, or invalid (under 2 snapshots).
StatedBias(df_5m) ==
    IF Len(df_5m) < 2 THEN "invalid"
    ELSE IF Latest(df_5m).ema_fast > Latest(df_5m).ema_slow
            /\ Latest(df_5m).close > Latest(df_5m).ema_slow THEN "bullish"
    ELSE IF Latest(df_5m).ema_fast < Latest(df_5m).ema_slow
            /\ Latest(df_5m).close < Latest(df_5m).ema_slow THEN "bearish"
    ELSE "neutral"

Defined(x) == x # NaN

\* (1) price near the fast average
Near(df, cfg) ==
    Abs(Latest(df).close - Latest(df).ema_fast) <= cfg.EMA_PROXIMITY_POINTS

\* (2) momentum within the zone bounds
InZone(df, zone) ==
    Defined(Latest(df).rsi) /\ zone[1] <= Latest(df).rsi /\ Latest(df).rsi <= zone[2]

\* (3) momentum crossed the midline, upwards or downwards
CrossedUp(df, cfg) ==
    /\ Defined(Before(df).rsi) /\ Defined(Latest(df).rsi)
    /\ Before(df).rsi <= cfg.RSI_LEVEL /\ cfg.RSI_LEVEL < Latest(df).rsi

CrossedDown(df, cfg) ==
    /\ Defined(Before(df).rsi) /\ Defined(Latest(df).rsi)
    /\ Before(df).rsi >= cfg.RSI_LEVEL /\ cfg.RSI_LEVEL > Latest(df).rsi

\* (4) close on the trend's side of the fast average
CloseAbove(df) == Latest(df).close > Latest(df).ema_fast
CloseBelow(df) == Latest(df).close < Latest(df).ema_fast

VolatilityOk(df, cfg) == Latest(df).atr >= cfg.ATR_MIN_VALUE

\* The latest call came inside the cooldown window that follows an entry for its symbol.
CallInWindow ==
    /\ call.symbol \in DOMAIN last_entry
    /\ last_entry[call.symbol] <= call.time
    /\ call.time - last_entry[call.symbol] < config.SIGNAL_COOLDOWN_CANDLES

\* What the rules alone would make of the latest call's frames, cooldown aside.
Unhindered == analyze(EmptyMap, call.df_5m, call.df_1m, call.symbol, call.time, config).ret

-----------------------------------------------------------------------------
(* Claims *)

\* C1: when an analyze call for symbol s returns an entry-kind signal, no entry-kind
\* signal was returned for s less than SIGNAL_COOLDOWN_CANDLES minutes earlier.
C1_EntriesSpaced ==
    [][ (now' = now /\ IsEntry(result'.type) /\ call'.symbol \in DOMAIN last_entry)
          => now - last_entry[call'.symbol] >= config.SIGNAL_COOLDOWN_CANDLES ]_vars

\* A call inside the window whose frames satisfy the entry rule, and that returned nothing.
C1_Witness ==
    /\ CallInWindow
    /\ call.time > last_entry[call.symbol]
    /\ IsEntry(Unhindered.type)
    /\ result = None

\* C2: a call returns nothing or one signal of the four kinds; a buy-kind signal is
\* the one the buy rules produced, and the sell rules are consulted only when the buy
\* rules produced nothing.
C2_OneSignalBuyFirst ==
    /\ result.type \in SignalTypes \cup {NoType}
    /\ ~(IsBuy(result.type) /\ IsSell(result.type))
    /\ trace.sell => trace.buy /\ trace.buy_type = NoType
    /\ trace.buy_type # NoType => result.type = trace.buy_type /\ ~trace.sell
    /\ IsSell(result.type) => trace.sell

\* The buy rules produced a signal and the sell rules were left alone.
C2_Witness ==
    /\ trace.buy /\ ~trace.sell
    /\ IsBuy(result.type)

\* C3: a buy-kind signal only under a bullish slow frame, a sell-kind signal only
\* under a bearish one, and nothing under a neutral or invalid one.
C3_DirectionFollowsBias ==
    /\ IsBuy(result.type) => StatedBias(call.df_5m) = "bullish"
    /\ IsSell(result.type) => StatedBias(call.df_5m) = "bearish"
    /\ StatedBias(call.df_5m) \in {"neutral", "invalid"} => result = None

\* A neutral slow frame over a fast frame that satisfies the buy entry rule.
C3_Witness ==
    /\ StatedBias(call.df_5m) = "neutral"
    /\ Latest(call.df_5m).ema_fast > Latest(call.df_5m).ema_slow
    /\ Len(call.df_1m) >= 2
    /\ Near(call.df_1m, config) /\ CrossedUp(call.df_1m, config) /\ CloseAbove(call.df_1m)
    /\ VolatilityOk(call.df_1m, config)
    /\ trace.trend
    /\ result = None

\* C4: volatility of the latest fast snapshot under the floor: no signal.
C4_LowVolatilityNoSignal ==
    (Len(call.df_1m) >= 1 /\ Latest(call.df_1m).atr < config.ATR_MIN_VALUE)
        => result = None

\* Everything but the volatility is in favour of an entry, and the rules were consulted.
C4_Witness ==
    /\ Len(call.df_1m) >= 2
    /\ Latest(call.df_1m).atr < config.ATR_MIN_VALUE
    /\ StatedBias(call.df_5m) = "bearish"
    /\ Near(call.df_1m, config) /\ CrossedDown(call.df_1m, config) /\ CloseBelow(call.df_1m)
    /\ trace.sell
    /\ result = None

\* The evaluators have been applied to eval_in.
Evaluated == eval_out.kind = "done"

BuyCase ==
    /\ Evaluated
    /\ eval_in.direction = "bullish"
    /\ Len(eval_in.df_1m) >= 2
    /\ VolatilityOk(eval_in.df_1m, config)

SellCase ==
    /\ Evaluated
    /\ eval_in.direction = "bearish"
    /\ Len(eval_in.df_1m) >= 2
    /\ VolatilityOk(eval_in.df_1m, config)

\* C5 as stated: ready_buy exactly when (1), (2), (3); otherwise entry_buy exactly
\* when (1), (3), (4); otherwise nothing.
C5_Original ==
    BuyCase =>
      eval_out.buy[1] =
        IF Near(eval_in.df_1m, config) /\ InZone(eval_in.df_1m, config.RSI_BUY_ZONE)
           /\ CrossedUp(eval_in.df_1m, config)
          THEN "ready_buy"
        ELSE IF Near(eval_in.df_1m, config) /\ CrossedUp(eval_in.df_1m, config)
                /\ CloseAbove(eval_in.df_1m)
          THEN "entry_buy"
        ELSE NoType

\* C5 amended: ready_buy exactly when ENABLE_READY_ALERT is on and (1), (2), (3) hold;
\* otherwise entry_buy exactly when (1), (3), (4) hold; otherwise nothing.
C5_BuyRule ==
    BuyCase =>
      eval_out.buy[1] =
        IF config.ENABLE_READY_ALERT
           /\ Near(eval_in.df_1m, config) /\ InZone(eval_in.df_1m, config.RSI_BUY_ZONE)
           /\ CrossedUp(eval_in.df_1m, config)
          THEN "ready_buy"
        ELSE IF Near(eval_in.df_1m, config) /\ CrossedUp(eval_in.df_1m, config)
                /\ CloseAbove(eval_in.df_1m)
          THEN "entry_buy"
        ELSE NoType

\* All four conditions hold with the alert on: ready_buy, not entry_buy.
C5_Witness ==
    /\ BuyCase
    /\ config.ENABLE_READY_ALERT
    /\ Near(eval_in.df_1m, config) /\ InZone(eval_in.df_1m, config.RSI_BUY_ZONE)
    /\ CrossedUp(eval_in.df_1m, config) /\ CloseAbove(eval_in.df_1m)
    /\ eval_out.buy[1] = "ready_buy"

\* C6 as stated: ready_sell exactly when proximity, sell zone and cross down hold;
\* otherwise entry_sell exactly when proximity, cross down and close below the fast
\* average hold; otherwise nothing.
C6_Original ==
    SellCase =>
      eval_out.sell[1] =
        IF Near(eval_in.df_1m, config) /\ InZone(eval_in.df_1m, config.RSI_SELL_ZONE)
           /\ CrossedDown(eval_in.df_1m, config)
          THEN "ready_sell"
        ELSE IF Near(eval_in.df_1m, config) /\ CrossedDown(eval_in.df_1m, config)
                /\ CloseBelow(eval_in.df_1m)
          THEN "entry_sell"
        ELSE NoType

\* C6 amended: as stated, with ready_sell only when ENABLE_READY_ALERT is on.
C6_SellRule ==
    SellCase =>
      eval_out.sell[1] =
        IF config.ENABLE_READY_ALERT
           /\ Near(eval_in.df_1m, config) /\ InZone(eval_in.df_1m, config.RSI_SELL_ZONE)
           /\ CrossedDown(eval_in.df_1m, config)
          THEN "ready_sell"
        ELSE IF Near(eval_in.df_1m, config) /\ CrossedDown(eval_in.df_1m, config)
                /\ CloseBelow(eval_in.df_1m)
          THEN "entry_sell"
        ELSE NoType

\* A cross down that starts on the midline, outside the sell zone: entry_sell.
C6_Witness ==
    /\ SellCase
    /\ Before(eval_in.df_1m).rsi = config.RSI_LEVEL
    /\ Near(eval_in.df_1m, config) /\ CrossedDown(eval_in.df_1m, config)
    /\ CloseBelow(eval_in.df_1m)
    /\ ~InZone(eval_in.df_1m, config.RSI_SELL_ZONE)
    /\ eval_out.sell[1] = "entry_sell"

\* The frames of the latest call satisfy the rule of a ready signal.
ReadyConditions ==
    /\ config.ENABLE_READY_ALERT
    /\ Len(call.df_1m) >= 2
    /\ VolatilityOk(call.df_1m, config)
    /\ Near(call.df_1m, config)
    /\ \/ /\ StatedBias(call.df_5m) = "bullish"
          /\ InZone(call.df_1m, config.RSI_BUY_ZONE)
          /\ CrossedUp(call.df_1m, config)
       \/ /\ StatedBias(call.df_5m) = "bearish"
          /\ InZone(call.df_1m, config.RSI_SELL_ZONE)
          /\ CrossedDown(call.df_1m, config)

\* C7 as stated: a call inside the cooldown window whose ready conditions hold still
\* returns the ready-kind signal.
C7_Original ==
    (CallInWindow /\ ReadyConditions) => IsReady(result.type)

\* C7 amended: a call inside the cooldown window returns no signal even when its ready
\* conditions hold; outside the window the same frames return the ready-kind signal.
C7_ReadyBlockedInWindow ==
    ReadyConditions =>
        /\ CallInWindow => result = None
        /\ ~CallInWindow => IsReady(result.type)

\* Ready conditions inside the window opened by an earlier entry: nothing returned.
C7_Witness ==
    /\ CallInWindow
    /\ call.time > last_entry[call.symbol]
    /\ ReadyConditions
    /\ result = None

\* C8: an analyze call changes the cooldown map exactly when it returns an entry-kind
\* signal, and then only by setting its symbol's entry to the signal's timestamp.
C8_CooldownFrame ==
    [][ now' = now =>
          IF IsEntry(result'.type)
            THEN /\ signal_cooldown' # signal_cooldown
                 /\ DOMAIN signal_cooldown' = DOMAIN signal_cooldown \cup {call'.symbol}
                 /\ signal_cooldown'[call'.symbol] = result'.timestamp
                 /\ \A s \in DOMAIN signal_cooldown \ {call'.symbol} :
                        signal_cooldown'[s] = signal_cooldown[s]
            ELSE signal_cooldown' = signal_cooldown ]_vars

\* An entry for one symbol while the other symbol's earlier entry is still recorded.
C8_Witness ==
    /\ IsEntry(result.type)
    /\ result.timestamp = now
    /\ DOMAIN signal_cooldown = Symbols
    /\ \E s \in Symbols \ {call.symbol} : signal_cooldown[s] < signal_cooldown[call.symbol]

\* C9: every entry-kind signal record carries symbol, direction, price, stop_loss,
\* take_profit and timestamp.
C9_EntryCarriesTradeFields ==
    IsEntry(result.type) =>
        {"symbol", "direction", "price", "stop_loss", "take_profit", "timestamp"}
            \subseteq DOMAIN result

\* C10: entry_buy is emitted with stop-loss = close - offset below the close and
\* target = close + offset above it; entry_sell with stop-loss = close + offset above
\* the close and target = close - offset below it.
C10_EntryLevels ==
    Evaluated =>
      LET close == Latest(eval_in.df_1m).close
          stop_offset   == config.STOP_LOSS_POINTS * POINT
          target_offset == config.TAKE_PROFIT_POINTS * POINT
      IN  /\ eval_out.buy[1] = "entry_buy" =>
                /\ eval_out.buy[2].stop_loss = close - stop_offset
                /\ eval_out.buy[2].take_profit = close + target_offset
                /\ eval_out.buy[2].stop_loss < close
                /\ eval_out.buy[2].take_profit > close
          /\ eval_out.sell[1] = "entry_sell" =>
                /\ eval_out.sell[2].stop_loss = close + stop_offset
                /\ eval_out.sell[2].take_profit = close - target_offset
                /\ eval_out.sell[2].stop_loss > close
                /\ eval_out.sell[2].take_profit < close

\* An entry_sell has been produced, with its levels around the close.
C10_Witness ==
    /\ Evaluated
    /\ eval_out.sell[1] = "entry_sell"
    /\ eval_out.sell[2].take_profit < eval_out.sell[2].close
    /\ eval_out.sell[2].close < eval_out.sell[2].stop_loss

\* The classifier has been applied to eval_in.df_5m.
Classified == eval_out.kind = "trend"

\* C11: on a slow frame of 2 or more snapshots the classifier returns bullish iff the
\* fast average and the close are both above the slow average of the latest snapshot,
\* bearish iff both are below it, neutral otherwise; never both.
C11_TrendRule ==
    (Classified /\ Len(eval_in.df_5m) >= 2) =>
      LET r    == Latest(eval_in.df_5m)
          up   == r.ema_fast > r.ema_slow /\ r.close > r.ema_slow
          down == r.ema_fast < r.ema_slow /\ r.close < r.ema_slow
      IN  /\ eval_out.direction = "bullish" <=> up
          /\ eval_out.direction = "bearish" <=> down
          /\ eval_out.direction = "neutral" <=> ~up /\ ~down
          /\ ~(up /\ down)

\* A fast average equal to the slow average under a higher close: neutral.
C11_Witness ==
    /\ Classified
    /\ Len(eval_in.df_5m) >= 2
    /\ Latest(eval_in.df_5m).ema_fast = Latest(eval_in.df_5m).ema_slow
    /\ Latest(eval_in.df_5m).close > Latest(eval_in.df_5m).ema_slow
    /\ eval_out.direction = "neutral"

\* C12 as stated: under 2 snapshots analyze_trend returns neutral with valid = FALSE,
\* and a neutral reading of 2 or more snapshots is marked valid.
C12_Original ==
    Classified =>
      /\ Len(eval_in.df_5m) < 2 =>
            eval_out.info.direction = "neutral" /\ ~eval_out.info.valid
      /\ (Len(eval_in.df_5m) >= 2 /\ eval_out.info.direction = "neutral") =>
            eval_out.info.valid

\* C12 amended: under 2 snapshots analyze_trend returns neutral with valid = FALSE and
\* no snapshot values; with 2 or more it returns the snapshot values, and valid exactly
\* when the bias is bullish or bearish, so a neutral reading is not valid either.
C12_ValidIffDirectional ==
    Classified =>
      /\ Len(eval_in.df_5m) < 2 =>
            eval_out.info = [direction |-> "neutral", valid |-> FALSE]
      /\ Len(eval_in.df_5m) >= 2 =>
            /\ eval_out.info.valid <=> eval_out.info.direction \in {"bullish", "bearish"}
            /\ eval_out.info.direction = eval_out.direction
            /\ eval_out.info.ema_fast = Latest(eval_in.df_5m).ema_fast
            /\ eval_out.info.ema_slow = Latest(eval_in.df_5m).ema_slow
            /\ eval_out.info.close = Latest(eval_in.df_5m).close

\* A neutral reading of a two-snapshot frame: not valid, yet with its snapshot values.
C12_Witness ==
    /\ Classified
    /\ Len(eval_in.df_5m) >= 2
    /\ eval_out.info.direction = "neutral"
    /\ ~eval_out.info.valid
    /\ "ema_slow" \in DOMAIN eval_out.info

\* C13: an analyze call given a slow or a fast frame of fewer than 2 snapshots returns
\* no signal and leaves the cooldown map as it was.
C13_ShortFrameNoSignal ==
    [][ (now' = now /\ (Len(call'.df_5m) < 2 \/ Len(call'.df_1m) < 2))
          => (result' = None /\ signal_cooldown' = signal_cooldown) ]_vars

\* A bullish slow frame over a one-snapshot fast frame: the rules were consulted and
\* returned nothing.
C13_Witness ==
    /\ call.symbol \in Symbols
    /\ StatedBias(call.df_5m) = "bullish"
    /\ Len(call.df_1m) < 2
    /\ trace.buy /\ trace.sell
    /\ result = None

\* The add_indicators call has been made.
Computed == eval_out.kind = "indicators"

\* The closes of the call, and the smoothed gain and loss calculate_rsi forms from them.
ClosesIn == column(eval_in.df, "close")
SmoothedGain == rsi_avg_gains(ClosesIn, eval_in.periods.rsi_period)
SmoothedLoss == rsi_avg_losses(ClosesIn, eval_in.periods.rsi_period)

\* C14: at every index where the smoothed loss is zero the momentum value is the
\* number 100, whether or not the smoothed gain is zero as well.
C14_ZeroLossSaturates ==
    Computed => \A i \in 1..Len(eval_in.df) :
                    SmoothedLoss[i] = Num(0) => eval_out.df[i].rsi = Num(100)

\* C15: the volatility value of every snapshot is a number and is >= 0.
C15_VolatilityNonNegative ==
    Computed => \A i \in 1..Len(eval_in.df) : AtMost(Num(0), eval_out.df[i].atr)

\* A gap candle: the second candle lies further from the previous close than its own
\* range, and the smoothed volatility there is above zero.
C15_Witness ==
    /\ Computed
    /\ Len(eval_in.df) >= 2
    /\ eval_in.df[2].high - eval_in.df[2].low < eval_in.df[1].close - eval_in.df[2].high
    /\ Less(Num(eval_in.df[2].high - eval_in.df[2].low), eval_out.df[2].atr)

\* C16: the momentum value of every snapshot lies in [0, 100].
C16_MomentumInRange ==
    Computed => \A i \in 1..Len(eval_in.df) :
                    /\ AtMost(Num(0), eval_out.df[i].rsi)
                    /\ AtMost(eval_out.df[i].rsi, Num(100))

\* All closes of the call equal its first close.
ConstantCloses == \A i \in 1..Len(eval_in.df) : eval_in.df[i].close = eval_in.df[1].close

\* C17: on closes that all equal c, the fast and the slow average equal c at every index.
C17_ConstantAverages ==
    (Computed /\ ConstantCloses)
        => \A i \in 1..Len(eval_in.df) :
                /\ eval_out.df[i].ema_fast = Num(eval_in.df[1].close)
                /\ eval_out.df[i].ema_slow = Num(eval_in.df[1].close)

\* Three candles closing at 2 under the default periods 20 and 50, with highs and lows
\* that move.
C17_Witness ==
    /\ Computed
    /\ ConstantCloses
    /\ Len(eval_in.df) >= 3
    /\ eval_in.df[1].close = 2
    /\ eval_in.df[2].high # eval_in.df[1].high
    /\ eval_in.periods.ema_fast = 20 /\ eval_in.periods.ema_slow = 50
    /\ eval_out.df[3].ema_fast = Num(2) /\ eval_out.df[3].ema_slow = Num(2)

\* add_indicators on the first i candles of the call, with the periods of the call.
OnPrefix(i) ==
    add_indicators(SubSeq(eval_in.df, 1, i), eval_in.periods.ema_fast,
                   eval_in.periods.ema_slow, eval_in.periods.rsi_period,
                   eval_in.periods.atr_period)

\* C18: the snapshot at index i is the snapshot at index i of the call on the first i
\* candles alone, so no candle after i has a part in it.
C18_Causal ==
    Computed => \A i \in 1..Len(eval_in.df) : eval_out.df[i] = OnPrefix(i)[i]

\* Three candles, the later ones closing away from the first: the first snapshot is the
\* one a call on the first candle alone gives.
C18_Witness ==
    /\ Computed
    /\ Len(eval_in.df) >= 3
    /\ eval_in.df[2].close # eval_in.df[1].close
    /\ eval_in.df[3].close # eval_in.df[2].close
    /\ eval_in.df[1].high > eval_in.df[1].low
    /\ eval_out.df[1] = OnPrefix(1)[1]
    /\ eval_out.df[2] = OnPrefix(2)[2]

\* The frames of the latest call satisfy the rule of a ready signal, the alert flag
\* left aside.
ReadyFrames ==
    /\ Len(call.df_1m) >= 2
    /\ VolatilityOk(call.df_1m, config)
    /\ Near(call.df_1m, config)
    /\ \/ /\ StatedBias(call.df_5m) = "bullish"
          /\ InZone(call.df_1m, config.RSI_BUY_ZONE)
          /\ CrossedUp(call.df_1m, config)
       \/ /\ StatedBias(call.df_5m) = "bearish"
          /\ InZone(call.df_1m, config.RSI_SELL_ZONE)
          /\ CrossedDown(call.df_1m, config)

\* C20: with ENABLE_READY_ALERT off no analyze call returns a ready-kind signal, and
\* frames that satisfy the ready rule go by the entry rule: a call that does not fall
\* inside a cooldown window gives the entry of the bias when the close is on its side
\* of the fast average, and nothing otherwise.
C20_ReadyDisabled ==
    [][ (now' = now /\ ~config.ENABLE_READY_ALERT) =>
          /\ ~IsReady(result'.type)
          /\ (ReadyFrames' /\ ~( /\ call'.symbol \in DOMAIN last_entry
                                 /\ call'.time - last_entry[call'.symbol]
                                      < config.SIGNAL_COOLDOWN_CANDLES )) =>
                result'.type =
                  IF StatedBias(call'.df_5m) = "bullish"
                    THEN (IF CloseAbove(call'.df_1m) THEN "entry_buy" ELSE NoType)
                    ELSE (IF CloseBelow(call'.df_1m) THEN "entry_sell" ELSE NoType) ]_vars

\* Alert off, momentum crossing up inside the buy zone, close above the fast average:
\* the call returns entry_buy where the alert would have given ready_buy.
C20_Witness ==
    /\ ~config.ENABLE_READY_ALERT
    /\ ReadyFrames
    /\ StatedBias(call.df_5m) = "bullish"
    /\ CloseAbove(call.df_1m)
    /\ result.type = "entry_buy"

\* Callers a and b both hold an entry-kind result for one symbol, stamped less than
\* the cooldown window apart.
BothEntered(a, b) ==
    /\ IsEntry(threads[a].ret.type) /\ IsEntry(threads[b].ret.type)
    /\ threads[a].ret.symbol = threads[b].ret.symbol
    /\ Abs(threads[a].ret.timestamp - threads[b].ret.timestamp)
          < config.SIGNAL_COOLDOWN_CANDLES

\* C21: two callers return entry-kind signals for one symbol inside one cooldown window
\* only if calls for that symbol have overlapped, one passing the cooldown check while
\* another had not yet returned; as long as calls for a symbol never overlap, which is
\* what mutual exclusion around the whole call ensures, this does not happen.
C21_DoubleEntryOnlyByRace ==
    \A a \in Threads : \A b \in Threads \ {a} :
        BothEntered(a, b) => threads[a].ret.symbol \in threads[a].raced

\* Both callers passed the check before either recorded its entry, and both returned
\* an entry for the same symbol.
C21_Witness ==
    /\ BothEntered(1, 2)
    /\ threads[1].ret.timestamp = threads[2].ret.timestamp
    /\ threads[1].ret.symbol \in threads[1].raced
    /\ threads[1].pc = "outside" /\ threads[2].pc = "outside"

\* C22: an analyze call for a symbol whose recorded entry is less than
\* SIGNAL_COOLDOWN_CANDLES minutes old returns nothing and consults neither the trend
\* classifier nor the entry rules; a call at exactly that distance, or for a symbol
\* with no recorded entry, is evaluated.
C22_CooldownStep ==
    [][ now' = now =>
          IF /\ call'.symbol \in DOMAIN signal_cooldown
             /\ now - signal_cooldown[call'.symbol] < config.SIGNAL_COOLDOWN_CANDLES
            THEN result' = None /\ trace' = NotConsulted
            ELSE trace'.trend ]_vars

\* A call exactly one window after the symbol's entry: the trend classifier and the
\* entry rules are consulted again, and a ready signal comes back.
C22_Witness ==
    /\ call.symbol \in DOMAIN last_entry
    /\ call.symbol \in DOMAIN signal_cooldown
    /\ call.time - signal_cooldown[call.symbol] = config.SIGNAL_COOLDOWN_CANDLES
    /\ trace.trend /\ trace.buy
    /\ IsReady(result.type)

\* The symbol is cooling down: its recorded entry is less than one window old.
CoolingDown(s) ==
    /\ s \in DOMAIN signal_cooldown
    /\ now - signal_cooldown[s] < config.SIGNAL_COOLDOWN_CANDLES

\* The step is an analyze call for s that returns an entry-kind signal.
EntryStep(s) == now' = now /\ call'.symbol = s /\ IsEntry(result'.type)

\* C23, steps: a symbol starts cooling down exactly in the analyze calls that return an
\* entry-kind signal for it; it stops cooling down only when the clock advances, the map
\* untouched; and no analyze call made while it cools down changes its recorded time.
C23_Steps ==
    [][ \A s \in Symbols :
          /\ (~CoolingDown(s) /\ CoolingDown(s)') => EntryStep(s)
          /\ EntryStep(s) => (~CoolingDown(s) /\ CoolingDown(s)')
          /\ (CoolingDown(s) /\ ~CoolingDown(s)')
                => (now' > now /\ signal_cooldown' = signal_cooldown)
          /\ (CoolingDown(s) /\ now' = now)
                => signal_cooldown'[s] = signal_cooldown[s] ]_vars

\* C23, progress: every symbol that cools down, with the end of its window inside the
\* horizon of the clock, becomes evaluable again.
C23_Progress ==
    \A s \in Symbols :
        (CoolingDown(s) /\ signal_cooldown[s] + config.SIGNAL_COOLDOWN_CANDLES <= MaxTime)
            ~> ~CoolingDown(s)

\* C23: the cooldown state machine of a symbol has the two transitions evaluable ->
\* cooling-down (on an entry-kind signal) and cooling-down -> evaluable (by elapsed time
\* alone, which a clock that keeps advancing always brings about).
C23_CooldownMachine == C23_Steps /\ C23_Progress

\* A symbol that cooled down since time 0 is evaluable again at the end of its window,
\* after calls that were made, and returned nothing, in between.
C23_Witness ==
    /\ \E s \in Symbols :
          /\ s \in DOMAIN signal_cooldown
          /\ signal_cooldown[s] = 0
          /\ ~CoolingDown(s)
          /\ call.symbol = s /\ call.time = 1 /\ result = None
    /\ now = config.SIGNAL_COOLDOWN_CANDLES

\* The places of the open trades with the id.
OpenWithId(trade_id) ==
    {i \in 1..Len(trades) : trades[i].id = trade_id /\ trades[i].status = "open"}

RECURSIVE Booked(_)
\* The sum of the actual profits of the closed trades among all_trades.
Booked(all_trades) ==
    IF all_trades = << >> THEN 0
    ELSE LET head == all_trades[1]
         IN  (IF head.status = "closed" THEN head.actual_profit[1] ELSE 0)
                + Booked(Tail(all_trades))

\* C30: a trade's status changes only from open to closed and a closed trade is never
\* touched again; close_trade on an id with no open trade returns None and leaves the
\* trades, the balance and the daily statistics as they were; so the balance is always
\* the initial balance plus the profit of each closed trade, counted once.
C30_CloseOnce ==
    [][ /\ \A i \in 1..Len(trades) :
              /\ trades'[i].status # trades[i].status
                    => (trades[i].status = "open" /\ trades'[i].status = "closed")
              /\ trades[i].status = "closed" => trades'[i] = trades[i]
        /\ (tracker_call'.kind = "close_trade" /\ OpenWithId(tracker_call'.trade_id) = {})
              => /\ tracker_call'.ret = None
                 /\ trades' = trades
                 /\ current_balance' = current_balance
                 /\ daily_stats' = daily_stats
        /\ current_balance' = initial_balance + Booked(trades') ]_vars

\* The one trade was closed with a profit and then closed again: the second call
\* returned None and the balance holds the profit once.
C30_Witness ==
    /\ Len(trades) = 1
    /\ trades[1].status = "closed"
    /\ trades[1].actual_profit # Some(0)
    /\ tracker_call.kind = "close_trade"
    /\ tracker_call.trade_id = 1
    /\ tracker_call.ret = None
    /\ current_balance = initial_balance + trades[1].actual_profit[1]
    /\ daily_stats[trades[1].exit_time[1]].total_trades = 1

\* The step is a pass of the for loop in which analyze returned a signal.
SignalPass ==
    /\ pending # << >> /\ pending' = Tail(pending)
    /\ outcome'.kind \in {"suppressed", "handled"}

\* The step hands the signal of the pass to the notifier.
DeliveredNow ==
    /\ Len(sent') = Len(sent) + 1
    /\ sent'[Len(sent')].signal = result'

\* An alert with the key was handed to the notifier less than one window before the
\* time of this cycle.
RecentlyDelivered(key) ==
    \E i \in 1..Len(sent) :
        /\ signal_key(sent[i].signal) = key
        /\ main_current_time - sent[i].time < config.SIGNAL_COOLDOWN_CANDLES

C29_Routing ==
    [][ (SignalPass /\ outcome'.kind = "handled") =>
          /\ IsReady(result'.type) => (outcome'.path = "ready" /\ trades' = trades)
          /\ IsEntry(result'.type) =>
                /\ outcome'.path = "entry"
                /\ Len(trades') = Len(trades) + 1
                /\ trades'[Len(trades')].symbol = result'.symbol
          /\ trades' # trades => IsEntry(result'.type) ]_vars

\* C25: a momentum cross is strict: check_rsi_cross says "above" exactly when
\* previous <= midline < current and "below" exactly when previous >= midline > current,
\* and it says no to any other direction; so under a bullish bias with previous and
\* current momentum both at or under the midline the buy rules return nothing, and
\* under a bearish bias with both at or over the midline the sell rules return nothing.
C25_StrictCross ==
    (Evaluated /\ Len(eval_in.df_1m) >= 2) =>
      LET current_rsi  == Latest(eval_in.df_1m).rsi
          previous_rsi == Before(eval_in.df_1m).rsi
      IN  /\ check_rsi_cross(current_rsi, previous_rsi, config.RSI_LEVEL, "above")
                <=> CrossedUp(eval_in.df_1m, config)
          /\ check_rsi_cross(current_rsi, previous_rsi, config.RSI_LEVEL, "below")
                <=> CrossedDown(eval_in.df_1m, config)
          /\ \A direction \in Directions \cup {"up", "down", ""} :
                ~check_rsi_cross(current_rsi, previous_rsi, config.RSI_LEVEL, direction)
          /\ ~CrossedUp(eval_in.df_1m, config) => eval_out.buy[1] = NoType
          /\ ~CrossedDown(eval_in.df_1m, config) => eval_out.sell[1] = NoType

\* Bullish bias, momentum 45 then 45 under the midline 50 and inside the buy zone, the
\* price near the fast average, the volatility over the floor: no buy-kind signal.
C25_Witness ==
    /\ BuyCase
    /\ Before(eval_in.df_1m).rsi = 45 /\ Latest(eval_in.df_1m).rsi = 45
    /\ config.RSI_LEVEL = 50
    /\ InZone(eval_in.df_1m, config.RSI_BUY_ZONE)
    /\ Near(eval_in.df_1m, config)
    /\ CloseAbove(eval_in.df_1m)
    /\ config.ENABLE_READY_ALERT
    /\ eval_out.buy[1] = NoType

\* The recurrence as stated, for the average avg of the closes under period p.
FollowsRecurrence(avg, p) ==
    /\ avg[1] = ClosesIn[1]
    /\ \A i \in 2..Len(ClosesIn) :
          avg[i] = Plus(avg[i - 1], Times(Frac(2, p + 1), Minus(ClosesIn[i], avg[i - 1])))

\* Every value lies between the least and the greatest close so far.
WithinCloses(avg) ==
    \A i \in 1..Len(ClosesIn) :
        /\ \E j \in 1..i : AtMost(ClosesIn[j], avg[i])
        /\ \E k \in 1..i : AtMost(avg[i], ClosesIn[k])

\* C26: the fast and the slow average follow avg[0] = close[0] and
\* avg[i] = avg[i-1] + (2/(p+1)) * (close[i] - avg[i-1]) for their period p, with no
\* simple-average warm-up, and each avg[i] lies between the minimum and the maximum of
\* close[0..i].
C26_Recurrence ==
    Computed =>
      LET fast == [i \in 1..Len(eval_in.df) |-> eval_out.df[i].ema_fast]
          slow == [i \in 1..Len(eval_in.df) |-> eval_out.df[i].ema_slow]
      IN  /\ FollowsRecurrence(fast, eval_in.periods.ema_fast)
          /\ FollowsRecurrence(slow, eval_in.periods.ema_slow)
          /\ WithinCloses(fast) /\ WithinCloses(slow)

\* Closes 1, 4, 2 under the periods 20 and 50: the second fast average is 1 + (2/21) * 3,
\* not the simple average 5/2, and the third is no close of the sequence.
C26_Witness ==
    /\ Computed
    /\ Len(eval_in.df) = 3
    /\ eval_in.df[1].close = 1 /\ eval_in.df[2].close = 4 /\ eval_in.df[3].close = 2
    /\ eval_in.periods.ema_fast = 20 /\ eval_in.periods.ema_slow = 50
    /\ eval_out.df[2].ema_fast = Frac(27, 21)
    /\ eval_out.df[2].ema_fast # Frac(5, 2)
    /\ \A i \in 1..3 : eval_out.df[3].ema_fast # ClosesIn[i]

Largest(a, b, c) ==
    IF a >= b /\ a >= c THEN a ELSE IF b >= c THEN b ELSE c

\* The true range of candle i as stated: high - low for the first candle, the largest
\* of high - low, |high - previous close| and |low - previous close| after it.
StatedTrueRange(i) ==
    IF i = 1 THEN eval_in.df[1].high - eval_in.df[1].low
    ELSE Largest(eval_in.df[i].high - eval_in.df[i].low,
                 Abs(eval_in.df[i].high - eval_in.df[i - 1].close),
                 Abs(eval_in.df[i].low - eval_in.df[i - 1].close))

\* C27: the volatility at index 0 is high[0] - low[0], a number, and at every later
\* index it is the smoothing of the true range max(high - low, |high - previous close|,
\* |low - previous close|) of its candle onto the value before.
C27_FirstTrueRange ==
    Computed =>
      /\ eval_out.df[1].atr = Num(StatedTrueRange(1))
      /\ \A i \in 2..Len(eval_in.df) :
            eval_out.df[i].atr =
                Plus(eval_out.df[i - 1].atr,
                     Times(Frac(2, eval_in.periods.atr_period + 1),
                           Minus(Num(StatedTrueRange(i)), eval_out.df[i - 1].atr)))

\* The first candle spans 4 - 1 and closes at 4; the second spans 2 - 1, so its true
\* range is |1 - 4| = 3; under period 1 the volatility is 3 and then 3.
C27_Witness ==
    /\ Computed
    /\ Len(eval_in.df) >= 2
    /\ eval_in.df[1] = [high |-> 4, low |-> 1, close |-> 4]
    /\ eval_in.df[2].high = 2 /\ eval_in.df[2].low = 1
    /\ eval_in.periods.atr_period = 1
    /\ eval_out.df[1].atr = Num(3)
    /\ eval_out.df[2].atr = Num(3)

\* The zones lie on their own side of the midline: the buy zone ends at or under it,
\* the sell zone starts at or over it (40-50 and 50-60 around 50).
ZonesApart ==
    /\ config.RSI_BUY_ZONE[2] <= config.RSI_LEVEL
    /\ config.RSI_SELL_ZONE[1] >= config.RSI_LEVEL

\* C28: when the buy zone ends at or under the midline and the sell zone starts at or
\* over it, momentum inside the zone and a strict cross of the midline never hold on
\* the same snapshot, so the rules return neither ready_buy nor ready_sell, whatever
\* the frame, the bias and the alert flag.
C28_ReadyUnreachable ==
    (Evaluated /\ ZonesApart) =>
      /\ Len(eval_in.df_1m) >= 2 =>
            /\ ~(InZone(eval_in.df_1m, config.RSI_BUY_ZONE) /\ CrossedUp(eval_in.df_1m, config))
            /\ ~(InZone(eval_in.df_1m, config.RSI_SELL_ZONE) /\ CrossedDown(eval_in.df_1m, config))
      /\ ~IsReady(eval_out.buy[1])
      /\ ~IsReady(eval_out.sell[1])

\* Bullish bias, the alert flag on, the price near the fast average, momentum 50 after
\* 45: on the upper bound of the buy zone 40-50 and not over the midline, so nothing is
\* returned.
C28_Witness ==
    /\ BuyCase
    /\ ZonesApart
    /\ config.ENABLE_READY_ALERT
    /\ Near(eval_in.df_1m, config)
    /\ Before(eval_in.df_1m).rsi = 45
    /\ Latest(eval_in.df_1m).rsi = config.RSI_BUY_ZONE[2]
    /\ Latest(eval_in.df_1m).rsi = config.RSI_LEVEL
    /\ InZone(eval_in.df_1m, config.RSI_BUY_ZONE)
    /\ eval_out.buy[1] = NoType

\* The places of the closed trades.
ClosedTrades == {i \in 1..Len(trades) : trades[i].status = "closed"}

\* The balance is the initial balance plus the actual profits of the closed trades, and
\* an open trade has no actual profit, exit price or exit time.
LedgerBalanced ==
    /\ current_balance = initial_balance + Booked(trades)
    /\ \A i \in 1..Len(trades) \ ClosedTrades :
          /\ trades[i].status = "open"
          /\ trades[i].actual_profit = Nothing
          /\ trades[i].exit_price = Nothing
          /\ trades[i].exit_time = Nothing

\* C31: from an empty ledger, after any add_trade and close_trade calls, the balance is
\* the initial balance plus the sum of actual_profit over the closed trades and every
\* open trade has actual_profit, exit_price and exit_time unset; a step that adds a
\* trade leaves the balance as it was.
C31_Ledger ==
    /\ []LedgerBalanced
    /\ [][ Len(trades') > Len(trades) => current_balance' = current_balance ]_vars

\* One trade closed with a profit and one open trade added after it: the balance is the
\* initial balance plus that one profit.
C31_Witness ==
    /\ Len(trades) = 2
    /\ trades[1].status = "closed" /\ trades[2].status = "open"
    /\ trades[1].actual_profit[1] > 0
    /\ tracker_call.kind = "add_trade"
    /\ tracker_call.ret = trades[2]
    /\ trades[2].actual_profit = Nothing
    /\ current_balance = initial_balance + trades[1].actual_profit[1]

\* The places of the trades closed on the date.
ClosedOn(date) == {i \in ClosedTrades : trades[i].exit_time = Some(date)}

\* C32: for every date of the daily statistics, winning_trades + losing_trades =
\* total_trades >= 1, total_trades is the number of trades closed on the date, the
\* winning trades are those closed with a profit over 0 (a profit of exactly 0 counts
\* as losing), and win_rate = winning_trades / total_trades * 100.
C32_DailyStatistics ==
    \A date \in DOMAIN daily_stats :
        LET stats == daily_stats[date]
        IN  /\ stats.winning_trades + stats.losing_trades = stats.total_trades
            /\ stats.total_trades >= 1
            /\ stats.total_trades = Cardinality(ClosedOn(date))
            /\ stats.winning_trades =
                    Cardinality({i \in ClosedOn(date) : trades[i].actual_profit[1] > 0})
            /\ stats.losing_trades =
                    Cardinality({i \in ClosedOn(date) : trades[i].actual_profit[1] <= 0})
            /\ stats.win_rate.n * stats.total_trades
                    = 100 * stats.winning_trades * stats.win_rate.d
            /\ stats.win_rate.d > 0

\* Two trades closed on the same date, one with a profit and one with a profit of
\* exactly 0: one winning, one losing, win rate 50.
C32_Witness ==
    /\ Len(trades) = 2
    /\ ClosedOn(1) = {1, 2}
    /\ trades[1].actual_profit[1] > 0
    /\ trades[2].actual_profit = Some(0)
    /\ daily_stats[1].total_trades = 2
    /\ daily_stats[1].winning_trades = 1
    /\ daily_stats[1].losing_trades = 1
    /\ daily_stats[1].win_rate = Num(50)

====
